---- MODULE Spec2Model ----
(***************************************************************************)
(* Model of the price-alert monitor of src/main.py: PriceCondition and     *)
(* CryptoAlertBot (get_current_price, send_email_alert, play_sound_alert,  *)
(* should_send_alert, handle_shutdown and the loop of start_monitoring).   *)
(*                                                                         *)
(* The loop is modelled statement by statement (pc names the statement     *)
(* the loop is about to execute), the signal handler as an action that     *)
(* may run between any two statements while the process is alive.          *)
(* Time is in seconds; time.time() is the variable now, which advances     *)
(* during the blocking calls (the HTTP request, a notifier, time.sleep).   *)
(***************************************************************************)
EXTENDS Integers, Sequences, FiniteSets, TLC

VARIABLES
    conditions,        \* self.conditions       (main.py:71)
    alert_types,       \* self.alert_types      (main.py:73)
    cooldown_period,   \* self.cooldown_period  (main.py:76)
    check_interval,    \* self.check_interval   (main.py:77)
    config,            \* self.config           (main.py:83)
    config_file,       \* the file named self.config_file (main.py:79)
    environ,           \* os.environ, as os.getenv reads it (main.py:103-105)
    config_found,      \* history: load_config found the file (main.py:97-98)
    running,           \* self.running          (main.py:80)
    last_alert_time,   \* self.last_alert_time  (main.py:75)
    pc,                \* the statement of start_monitoring to execute next
    market_data,       \* local of start_monitoring (main.py:221)
    ci,                \* position of "for condition in self.conditions"
    ai,                \* position of "for alert_type in self.alert_types"
    now,               \* the value time.time() returns
    cycle,             \* history: number of loop iterations entered
    last_fetch,        \* history: what the provider answered to the last fetch
    prev_price,        \* history: the price of the previous successful fetch
    on_script,         \* history: every fetch so far returned ScenarioPrices[cycle]
    fanouts,           \* history: every fan-out started (cycle, condition, time)
    attempted,         \* history: channel attempts of the fan-out in progress
    mark,              \* history: of the current cycle, last_alert_time at its
                       \*   start, the time it started, the time its fetch returned
    shutdown_pc,       \* history: pc at which running was first cleared
    shutdown_time,     \* history: now when running was first cleared
    fetches_after_stop \* history: fetches started since running was cleared

vars == <<conditions, alert_types, cooldown_period, check_interval, config,
          config_file, environ, config_found, running, last_alert_time, pc, market_data, ci, ai, now, cycle,
          last_fetch, prev_price, on_script, fanouts, attempted, mark, shutdown_pc,
          shutdown_time, fetches_after_stop>>

settings == <<conditions, alert_types, cooldown_period, check_interval, config,
              config_file, environ, config_found>>

signal == <<shutdown_pc, shutdown_time, fetches_after_stop>>

-----------------------------------------------------------------------------
(* Python values.  None, a float and a str are kept apart by a tag.        *)

None == [py |-> "None"]

Float(x) == [py |-> "float", v |-> x]

Str(s) == [py |-> "str", v |-> s]

IsNumber(x) == x.py = "float"

-----------------------------------------------------------------------------
(* Bounds of the model.                                                    *)

MaxConditions == 2      \* longest condition list

MaxAlertTypes == 2      \* longest alert-type list

MaxTime == 200          \* no loop iteration is entered after this time

(* Sample values.                                                          *)

Prices == {63, 65, 70, 81}

Durations == {0, 10}    \* how long a blocking call may take

ScenarioPrices == <<70, 63, 65, 81>>

ExampleCooldown == 300  \* cooldown_period of the example (main.py:270)

ExampleInterval == 60   \* check_interval of the example (main.py:271)

CooldownPeriods == {0, 30, 95, ExampleCooldown}

SeqsUpTo(S, n) == UNION {[1..k -> S] : k \in 0..n}

-----------------------------------------------------------------------------
(* PriceCondition                                                          *)

PriceCondition(target_price, condition_type) ==
    [target_price |-> target_price, condition_type |-> condition_type]

Conditions ==
    {PriceCondition(64, "below"), PriceCondition(64, "above"), PriceCondition(80, "above")}

(* Variant of is_met with a slip: strict comparisons.                      *)
is_met_strict(condition, current_price) ==
    IF condition.condition_type = "above"
    THEN current_price > condition.target_price
    ELSE current_price < condition.target_price

is_met(condition, current_price) ==
    IF condition.condition_type = "above"
    THEN current_price >= condition.target_price
    ELSE current_price <= condition.target_price

-----------------------------------------------------------------------------
(* The collaborators' answers.                                             *)

AlertTypes == {"sound", "email", "sms"}

Credentials(s, p, r) ==
    [sender_email |-> s, sender_password |-> p, receiver_email |-> r]

EmailConfigs == {Credentials("", "", ""), Credentials("a@x", "pw", "b@x")}

(* Every combination of empty and non-empty credentials.                   *)
CredentialSets ==
    {Credentials(s, p, r) : s \in {"", "a@x"}, p \in {"", "pw"}, r \in {"", "b@x"}}

(* The documented schema of the configuration (main.py:101-111).           *)
Config(email) ==
    [email |-> email,
     notification_preferences |-> [price_history |-> TRUE, volume_alert |-> TRUE]]

(* The configuration file: absent, or the JSON text of a configuration.    *)
Missing == [py |-> "FileNotFoundError"]

json_dump(c) == [json |-> c]

json_load(f) == f.json

(* The environment: the variables that are set, with their values.         *)
NoEnviron == [k \in {} |-> ""]

Environ(s, p, r) ==
    LET v == [SENDER_EMAIL |-> s, SENDER_PASSWORD |-> p, RECEIVER_EMAIL |-> r]
    IN  [k \in {n \in DOMAIN v : v[n] # ""} |-> v[k]]

getenv(key, default) == IF key \in DOMAIN environ THEN environ[key] ELSE default

FailureKinds == {"timeout", "http_error", "bad_json", "not_found", "no_usd"}

Ok(usd, vol, chg) == [kind |-> "ok", usd |-> usd, vol |-> vol, chg |-> chg]

(* What the provider may answer: a failure, a full snapshot, a snapshot    *)
(* without usd_24h_vol or without usd_24h_change, a usd that is no number. *)
Responses ==
    {[kind |-> k] : k \in FailureKinds}
    \cup {Ok(Float(p), Float(1000), Float(2)) : p \in Prices}
    \cup {Ok(Float(p), None, Float(2)) : p \in Prices}
    \cup {Ok(Float(p), Float(1000), None) : p \in Prices}
    \cup {Ok(None, Float(1000), Float(2)), Ok(Str("n/a"), Float(1000), Float(2))}

SoundOutcomes == {"unsupported_platform", "missing_file", "playback_failed", "played"}

SmtpOutcomes == {"smtp_failed", "sent"}

-----------------------------------------------------------------------------
(* CryptoAlertBot                                                          *)

(* __init__: the state after construction.                                 *)
Boot(c, a, cooldown, interval, email) ==
    /\ conditions = c
    /\ alert_types = a
    /\ cooldown_period = cooldown
    /\ check_interval = interval
    /\ config = Config(email)
    /\ config_file = json_dump(Config(email))
    /\ environ = NoEnviron
    /\ config_found = TRUE
    /\ running = TRUE
    /\ last_alert_time = None
    /\ pc = "while"
    /\ market_data = None
    /\ ci = 1
    /\ ai = 1
    /\ now = 0
    /\ cycle = 0
    /\ last_fetch = "none"
    /\ prev_price = None
    /\ on_script = TRUE
    /\ fanouts = <<>>
    /\ attempted = <<>>
    /\ mark = [last |-> None, started |-> 0, polled |-> 0]
    /\ shutdown_pc = "none"
    /\ shutdown_time = 0
    /\ fetches_after_stop = 0

(* Every condition list and alert-type list within the bounds, without a  *)
(* cooldown and with the default one, and an interval longer than MaxTime: *)
(* one poll cycle of every configuration.                                  *)
Init ==
    \E c \in SeqsUpTo(Conditions, MaxConditions),
       a \in SeqsUpTo(AlertTypes, MaxAlertTypes),
       cooldown \in {0, ExampleCooldown},
       email \in EmailConfigs :
          Boot(c, a, cooldown, MaxTime + 50, email)

ExampleConditions == <<PriceCondition(64, "below"), PriceCondition(80, "above")>>

ExampleAlerts == <<"sound", "email">>

(* The configuration of the example of main.py:256-272 (its first two      *)
(* conditions): four poll cycles before MaxTime.                           *)
InitScenario ==
    \E email \in EmailConfigs :
       Boot(ExampleConditions, ExampleAlerts, ExampleCooldown, ExampleInterval, email)

(* The same conditions with the default channel (main.py:52) under every   *)
(* cooldown period, shorter and longer than the interval: three poll       *)
(* cycles before MaxTime.                                                  *)
InitCycles ==
    \E cooldown \in CooldownPeriods :
       Boot(ExampleConditions, <<"sound">>, cooldown, 90, Credentials("", "", ""))

(* Every condition list within the bound with the default channel, under   *)
(* a cooldown shorter and one longer than the interval: two poll cycles    *)
(* before MaxTime.                                                         *)
InitOrder ==
    \E c \in SeqsUpTo(Conditions, MaxConditions), cooldown \in {30, ExampleCooldown} :
       Boot(c, <<"sound">>, cooldown, 150, Credentials("", "", ""))

(* A target both directions meet at a sample price.                        *)
BoundaryConditions == <<PriceCondition(65, "below"), PriceCondition(65, "above")>>

(* The constructor about to execute self.config = self.load_config()       *)
(* (main.py:83), the fields of lines 69-80 assigned: the configuration     *)
(* file absent under every environment, or present with every combination  *)
(* of empty and non-empty credentials; one poll cycle follows.             *)
InitBoot ==
    \E a \in {<<"email", "sound">>, <<"sound", "email">>},
       cooldown \in {0, ExampleCooldown},
       file \in {Missing} \cup {json_dump(Config(c)) : c \in CredentialSets},
       env \in {Environ(c.sender_email, c.sender_password, c.receiver_email) :
                   c \in CredentialSets} :
          /\ file # Missing => env \in {NoEnviron, Environ("a@x", "pw", "b@x")}
          /\ conditions = BoundaryConditions
          /\ alert_types = a
          /\ cooldown_period = cooldown
          /\ check_interval = MaxTime + 50
          /\ config = None
          /\ config_file = file
          /\ environ = env
          /\ config_found = FALSE
          /\ running = TRUE
          /\ last_alert_time = None
          /\ pc = "init"
          /\ market_data = None
          /\ ci = 1
          /\ ai = 1
          /\ now = 0
          /\ cycle = 0
          /\ last_fetch = "none"
          /\ prev_price = None
          /\ on_script = TRUE
          /\ fanouts = <<>>
          /\ attempted = <<>>
          /\ mark = [last |-> None, started |-> 0, polled |-> 0]
          /\ shutdown_pc = "none"
          /\ shutdown_time = 0
          /\ fetches_after_stop = 0

(* save_config: the file after json.dump(config, f).                       *)
save_config(cfg) == json_dump(cfg)

(* Variant of load_config with a slip: the default configuration is not   *)
(* written to the file.                                                    *)
load_config_unsaved ==
    IF config_file # Missing
    THEN [config |-> json_load(config_file), file |-> config_file]
    ELSE LET cfg == Config(Credentials(getenv("SENDER_EMAIL", ""),
                                       getenv("SENDER_PASSWORD", ""),
                                       getenv("RECEIVER_EMAIL", "")))
         IN  [config |-> cfg, file |-> config_file]

(* load_config: the configuration returned and the file left behind.       *)
load_config ==
    IF config_file # Missing
    THEN [config |-> json_load(config_file), file |-> config_file]
    ELSE LET cfg == Config(Credentials(getenv("SENDER_EMAIL", ""),
                                       getenv("SENDER_PASSWORD", ""),
                                       getenv("RECEIVER_EMAIL", "")))
         IN  [config |-> cfg, file |-> save_config(cfg)]

(* __init__ from line 83 on: load or create the configuration, register    *)
(* the signal handlers.                                                    *)
CryptoAlertBot_init ==
    /\ pc = "init"
    /\ config' = load_config.config
    /\ config_file' = load_config.file
    /\ config_found' = (config_file # Missing)
    /\ pc' = "while"
    /\ UNCHANGED <<conditions, alert_types, cooldown_period, check_interval,
                   environ, running, last_alert_time, market_data, ci, ai,
                   now, cycle, last_fetch, prev_price, on_script, fanouts,
                   attempted, mark, signal>>

(* The handlers are registered and start_monitoring has neither returned   *)
(* nor raised.                                                             *)
Alive == pc \notin {"init", "stopped", "raised"}

(* Variant of handle_shutdown with a slip: the handler ends the loop.      *)
handle_shutdown_abort ==
    /\ Alive
    /\ running' = FALSE
    /\ pc' = "stopped"
    /\ shutdown_pc' = IF running THEN pc ELSE shutdown_pc
    /\ shutdown_time' = IF running THEN now ELSE shutdown_time
    /\ UNCHANGED <<settings, last_alert_time, market_data, ci, ai, now,
                   cycle, last_fetch, prev_price, on_script, fanouts,
                   attempted, mark, fetches_after_stop>>

(* handle_shutdown: self.running = False, at any point after construction. *)
handle_shutdown ==
    /\ Alive
    /\ running' = FALSE
    /\ shutdown_pc' = IF running THEN pc ELSE shutdown_pc
    /\ shutdown_time' = IF running THEN now ELSE shutdown_time
    /\ UNCHANGED <<settings, last_alert_time, pc, market_data, ci, ai, now,
                   cycle, last_fetch, prev_price, on_script, fanouts,
                   attempted, mark, fetches_after_stop>>

(* get_current_price: what the method returns for a provider answer.       *)
get_current_price(resp) ==
    IF resp.kind = "ok"
    THEN [price |-> resp.usd, volume |-> resp.vol, change |-> resp.chg]
    ELSE None

(* Variant of all_credentials with a slip: any(...) for all(...).           *)
some_credentials == \E k \in DOMAIN config.email : config.email[k] # ""

(* all(self.config["email"].values())                                      *)
all_credentials == \A k \in DOMAIN config.email : config.email[k] # ""

(* send_email_alert: the ways one call can end.  "raised" is the exception *)
(* of the body's format expression, which is outside the try block.        *)
send_email_alert(data) ==
    IF ~all_credentials THEN {"no_credentials"}
    ELSE IF ~IsNumber(data.volume) THEN {"raised"}
    ELSE SmtpOutcomes

play_sound_alert == SoundOutcomes

Dispatch(alert_type, data) ==
    IF alert_type = "email" THEN send_email_alert(data)
    ELSE IF alert_type = "sound" THEN play_sound_alert
    ELSE {"skipped"}

Blocking(outcome) == outcome \in {"smtp_failed", "sent", "playback_failed", "played"}

Delivered(outcome) == outcome \in {"sent", "played"}

(* Variants of should_send_alert with a slip: a strict comparison; the     *)
(* cooldown never applied.                                                 *)
should_send_alert_strict(t) ==
    IF last_alert_time = None
    THEN TRUE
    ELSE (t - last_alert_time.v) > cooldown_period

should_send_alert_always(t) == TRUE

(* should_send_alert, with t the value time.time() returns.                *)
should_send_alert(t) ==
    IF last_alert_time = None
    THEN TRUE
    ELSE (t - last_alert_time.v) >= cooldown_period

(* Variant of while_enter with a slip: "while True".                       *)
while_enter_forever ==
    /\ pc = "while"
    /\ now <= MaxTime
    /\ pc' = "fetch"
    /\ cycle' = cycle + 1
    /\ mark' = [last |-> last_alert_time, started |-> now, polled |-> now]
    /\ UNCHANGED <<settings, running, last_alert_time, market_data, ci, ai,
                   now, last_fetch, prev_price, on_script, fanouts,
                   attempted, signal>>

(* while self.running: enter the next iteration.                           *)
while_enter ==
    /\ pc = "while"
    /\ running
    /\ now <= MaxTime
    /\ pc' = "fetch"
    /\ cycle' = cycle + 1
    /\ mark' = [last |-> last_alert_time, started |-> now, polled |-> now]
    /\ UNCHANGED <<settings, running, last_alert_time, market_data, ci, ai,
                   now, last_fetch, prev_price, on_script, fanouts,
                   attempted, signal>>

(* while self.running: leave the loop, "Monitoring stopped."               *)
while_exit ==
    /\ pc = "while"
    /\ ~running
    /\ pc' = "stopped"
    /\ UNCHANGED <<settings, running, last_alert_time, market_data, ci, ai,
                   now, cycle, last_fetch, prev_price, on_script, fanouts,
                   attempted, mark, signal>>

(* market_data = self.get_current_price()                                  *)
fetch_price ==
    /\ pc = "fetch"
    /\ \E resp \in Responses, d \in Durations :
          /\ market_data' = get_current_price(resp)
          /\ last_fetch' = resp.kind
          /\ on_script' = /\ on_script
                          /\ cycle <= Len(ScenarioPrices)
                          /\ resp.kind = "ok"
                          /\ resp.usd = Float(ScenarioPrices[cycle])
          /\ now' = now + d
          /\ mark' = [mark EXCEPT !.polled = now + d]
    /\ prev_price' = IF market_data = None THEN prev_price ELSE market_data.price
    /\ pc' = "check_data"
    /\ fetches_after_stop' = fetches_after_stop + (IF running THEN 0 ELSE 1)
    /\ UNCHANGED <<settings, running, last_alert_time, ci, ai, cycle,
                   fanouts, attempted, shutdown_pc, shutdown_time>>

(* if market_data is not None: false, nothing to evaluate.                 *)
no_data ==
    /\ pc = "check_data"
    /\ market_data = None
    /\ pc' = "sleep"
    /\ UNCHANGED <<settings, running, last_alert_time, market_data, ci, ai,
                   now, cycle, last_fetch, prev_price, on_script, fanouts,
                   attempted, mark, signal>>

(* price = market_data["price"]; logging.info(f"... ${price:.8f} ...")     *)
log_price ==
    /\ pc = "check_data"
    /\ market_data # None
    /\ pc' = IF IsNumber(market_data.price) THEN "for_condition" ELSE "raised"
    /\ ci' = 1
    /\ UNCHANGED <<settings, running, last_alert_time, market_data, ai, now,
                   cycle, last_fetch, prev_price, on_script, fanouts,
                   attempted, mark, signal>>

(* for condition in self.conditions: exhausted.                            *)
conditions_done ==
    /\ pc = "for_condition"
    /\ ci > Len(conditions)
    /\ pc' = "sleep"
    /\ UNCHANGED <<settings, running, last_alert_time, market_data, ci, ai,
                   now, cycle, last_fetch, prev_price, on_script, fanouts,
                   attempted, mark, signal>>

(* Variant of condition_passed with a slip: a condition may be passed     *)
(* over whatever the test says.                                            *)
condition_passed_any ==
    /\ pc = "for_condition"
    /\ ci <= Len(conditions)
    /\ ci' = ci + 1
    /\ UNCHANGED <<settings, running, last_alert_time, pc, market_data, ai,
                   now, cycle, last_fetch, prev_price, on_script, fanouts,
                   attempted, mark, signal>>

(* if condition.is_met(price) and self.should_send_alert(): false.         *)
condition_passed ==
    /\ pc = "for_condition"
    /\ ci <= Len(conditions)
    /\ ~(is_met(conditions[ci], market_data.price.v) /\ should_send_alert(now))
    /\ ci' = ci + 1
    /\ UNCHANGED <<settings, running, last_alert_time, pc, market_data, ai,
                   now, cycle, last_fetch, prev_price, on_script, fanouts,
                   attempted, mark, signal>>

(* Variant of condition_fires with a slip: the price is not looked at.     *)
condition_fires_unmet ==
    /\ pc = "for_condition"
    /\ ci <= Len(conditions)
    /\ should_send_alert(now)
    /\ pc' = "for_alert"
    /\ ai' = 1
    /\ fanouts' = Append(fanouts, [cycle |-> cycle, condition |-> ci, at |-> now])
    /\ attempted' = <<>>
    /\ UNCHANGED <<settings, running, last_alert_time, market_data, ci, now,
                   cycle, last_fetch, prev_price, on_script, mark, signal>>

(* if condition.is_met(price) and self.should_send_alert(): true.          *)
condition_fires ==
    /\ pc = "for_condition"
    /\ ci <= Len(conditions)
    /\ is_met(conditions[ci], market_data.price.v) /\ should_send_alert(now)
    /\ pc' = "for_alert"
    /\ ai' = 1
    /\ fanouts' = Append(fanouts, [cycle |-> cycle, condition |-> ci, at |-> now])
    /\ attempted' = <<>>
    /\ UNCHANGED <<settings, running, last_alert_time, market_data, ci, now,
                   cycle, last_fetch, prev_price, on_script, mark, signal>>

(* for alert_type in self.alert_types: one channel.                        *)
dispatch_alert ==
    /\ pc = "for_alert"
    /\ ai <= Len(alert_types)
    /\ \E outcome \in Dispatch(alert_types[ai], market_data) :
       \E d \in IF Blocking(outcome) THEN Durations ELSE {0} :
          /\ attempted' = Append(attempted, [alert_type |-> alert_types[ai],
                                             outcome |-> outcome])
          /\ now' = now + d
          /\ pc' = IF outcome = "raised" THEN "raised" ELSE "for_alert"
    /\ ai' = ai + 1
    /\ UNCHANGED <<settings, running, last_alert_time, market_data, ci,
                   cycle, last_fetch, prev_price, on_script, fanouts, mark,
                   signal>>

(* for alert_type in self.alert_types: exhausted.                          *)
alerts_done ==
    /\ pc = "for_alert"
    /\ ai > Len(alert_types)
    /\ pc' = "record"
    /\ UNCHANGED <<settings, running, last_alert_time, market_data, ci, ai,
                   now, cycle, last_fetch, prev_price, on_script, fanouts,
                   attempted, mark, signal>>

(* Variant of record_alert with a slip: the time is not stored.            *)
record_alert_unrecorded ==
    /\ pc = "record"
    /\ ci' = ci + 1
    /\ pc' = "for_condition"
    /\ attempted' = <<>>
    /\ UNCHANGED <<settings, running, last_alert_time, market_data, ai, now,
                   cycle, last_fetch, prev_price, on_script, fanouts, mark,
                   signal>>

(* self.last_alert_time = time.time()                                      *)
record_alert ==
    /\ pc = "record"
    /\ last_alert_time' = Float(now)
    /\ ci' = ci + 1
    /\ pc' = "for_condition"
    /\ attempted' = <<>>
    /\ UNCHANGED <<settings, running, market_data, ai, now, cycle,
                   last_fetch, prev_price, on_script, fanouts, mark, signal>>

(* time.sleep(self.check_interval)                                         *)
sleep ==
    /\ pc = "sleep"
    /\ now' = now + check_interval
    /\ pc' = "while"
    /\ UNCHANGED <<settings, running, last_alert_time, market_data, ci, ai,
                   cycle, last_fetch, prev_price, on_script, fanouts,
                   attempted, mark, signal>>

start_monitoring ==
    \/ while_enter
    \/ while_exit
    \/ fetch_price
    \/ no_data
    \/ log_price
    \/ conditions_done
    \/ condition_passed
    \/ condition_fires
    \/ dispatch_alert
    \/ alerts_done
    \/ record_alert
    \/ sleep

Next == start_monitoring \/ handle_shutdown

Spec == Init /\ [][Next]_vars

SpecScenario == InitScenario /\ [][Next]_vars

SpecCycles == InitCycles /\ [][Next]_vars

SpecOrder == InitOrder /\ [][Next]_vars

NextBoot == CryptoAlertBot_init \/ Next

SpecBoot == InitBoot /\ [][NextBoot]_vars

-----------------------------------------------------------------------------
(* What the properties below speak about.                                  *)

(* The statements of an iteration that follow its fetch.                   *)
AfterFetch == pc \in {"check_data", "for_condition", "for_alert", "record", "sleep", "raised"}

(* The current iteration fetched a snapshot with a numeric price.          *)
Snapshot == AfterFetch /\ market_data # None /\ IsNumber(market_data.price)

(* The configured conditions the fetched price meets.                      *)
Met == {i \in DOMAIN conditions : is_met(conditions[i], market_data.price.v)}

(* The fan-outs started in iteration c.                                    *)
FanoutsIn(c) == {i \in DOMAIN fanouts : fanouts[i].cycle = c}

(* The gate of section 4.3 at time t: open when there was no record, or   *)
(* when the cooldown window since the last record has elapsed.             *)
Open(t) ==
    last_alert_time = None \/ t >= last_alert_time.v + cooldown_period

(* The gate as it stood when the current iteration's fetch returned.       *)
GateOpenAtEvaluation ==
    mark.last = None \/ mark.polled >= mark.last.v + cooldown_period

(* The fan-out in progress ended: every channel done, or an exception.     *)
FanoutEnded ==
    \/ pc = "record"
    \/ pc = "raised" /\ attempted # <<>>

-----------------------------------------------------------------------------
(* C1: in a poll cycle whose fetch succeeded, with the gate open at the     *)
(* start of evaluation and two or more conditions met by the fetched       *)
(* price, exactly one fan-out occurs in that cycle and the gate is closed  *)
(* afterwards, for every cooldown_period, 0 included.                      *)
C1_OneFanoutPerCycle ==
    (pc = "sleep" /\ Snapshot /\ Cardinality(Met) >= 2 /\ GateOpenAtEvaluation)
        => /\ Cardinality(FanoutsIn(cycle)) = 1
           /\ ~Open(now)

(* C2: after any price-source failure (a failure answer, or a usd that is  *)
(* no number) the cycle raises nothing, evaluates no condition, invokes no *)
(* notifier, leaves last_alert_time alone and goes on to sleep.            *)
FetchFailed ==
    \/ last_fetch \in FailureKinds
    \/ last_fetch = "ok" /\ ~IsNumber(market_data.price)

C2_FetchFailureIsNoOp ==
    (AfterFetch /\ FetchFailed)
        => /\ pc \in {"check_data", "sleep"}
           /\ FanoutsIn(cycle) = {}
           /\ last_alert_time = mark.last

(* C3: a fan-out that ended has attempted every configured channel,        *)
(* whatever happened to the channels before it.                            *)
C3_EveryChannelAttempted ==
    FanoutEnded => Len(attempted) = Len(alert_types)

(* C4: no error inside a poll cycle terminates the loop: a cycle that      *)
(* fetched a snapshot with a numeric price (its volume or change possibly  *)
(* absent) never leaves start_monitoring by an exception.                  *)
C4_SnapshotCycleNeverRaises ==
    Snapshot => pc # "raised"

(* C5: before any record the gate allows; after a record at t0 the gate    *)
(* refuses every t with t0 <= t < t0 + cooldown_period and allows every    *)
(* t >= t0 + cooldown_period; only the record statement, which stores the  *)
(* current time, changes the gate.                                         *)
C5_GateLaw ==
    /\ last_alert_time = None =>
          \A t \in 0..(now + cooldown_period + 1) : should_send_alert(t)
    /\ last_alert_time # None =>
          \A t \in last_alert_time.v..(last_alert_time.v + cooldown_period + 1) :
             should_send_alert(t) <=> (t >= last_alert_time.v + cooldown_period)

C5_GateWrite ==
    /\ last_alert_time' # last_alert_time =>
          pc = "record" /\ last_alert_time' = Float(now)
    /\ cooldown_period' = cooldown_period

C5_CooldownGate == [](C5_GateLaw) /\ [][C5_GateWrite]_vars

C5_Witness ==
    /\ cooldown_period > 0
    /\ last_alert_time # None
    /\ pc = "for_condition"
    /\ ~should_send_alert(mark.started)
    /\ should_send_alert(now)

(* C6: with the example conditions, cooldown 300 and interval 60, while    *)
(* the fetches return 70, 63, 65, 81: no fan-out in cycle 1, one in cycle  *)
(* 2 for the first condition (below 64), none in cycle 3, none in cycle 4  *)
(* where the second condition (above 80) is met and the gate is closed.    *)
C6_Scenario ==
    (/\ on_script
     /\ conditions = ExampleConditions
     /\ cooldown_period = ExampleCooldown
     /\ check_interval = ExampleInterval)
        => /\ Len(fanouts) <= 1
           /\ \A i \in DOMAIN fanouts : fanouts[i].cycle = 2 /\ fanouts[i].condition = 1
           /\ (cycle = 2 /\ pc = "sleep") => Len(fanouts) = 1
           /\ cycle >= 3 => Len(fanouts) = 1
           /\ (cycle = 4 /\ Snapshot) => Met = {2} /\ ~Open(now)

C6_Witness ==
    on_script /\ cycle = 4 /\ pc = "sleep" /\ Len(fanouts) = 1

(* C7: once the handler has cleared running during the sleep statement,    *)
(* the loop only finishes the sleep and leaves: no fetch, no evaluation,   *)
(* no dispatch, and it has stopped check_interval after the signal at the  *)
(* latest.                                                                 *)
C7_ShutdownDuringSleep ==
    shutdown_pc = "sleep"
        => /\ ~running
           /\ pc \in {"sleep", "while", "stopped"}
           /\ fetches_after_stop = 0
           /\ now - shutdown_time <= check_interval
           /\ pc = "while" => (ENABLED while_exit /\ ~ENABLED while_enter)

C7_Witness ==
    /\ shutdown_pc = "sleep"
    /\ pc = "stopped"
    /\ cycle >= 2
    /\ now - shutdown_time = check_interval

(* C8 as stated: a fan-out is dispatched for a condition only when the     *)
(* condition was not met by the price of the previous successful poll.     *)
C8_OnlyOnTransition ==
    pc = "for_alert"
        => /\ ci \in Met
           /\ prev_price = None \/ ~is_met(conditions[ci], prev_price.v)

(* C8 as amended: a fan-out is dispatched for a condition only when the    *)
(* condition is met by the fetched price and the gate is open at that      *)
(* moment, and a cycle with a met condition and the gate open when its     *)
(* fetch returned does fan out, whatever the previous poll was.            *)
C8_FiresWhenMetAndOpen ==
    /\ pc \in {"for_alert", "record"} =>
          /\ fanouts[Len(fanouts)] = [cycle |-> cycle, condition |-> ci,
                                      at |-> fanouts[Len(fanouts)].at]
          /\ ci \in Met
          /\ Open(fanouts[Len(fanouts)].at)
    /\ (pc = "sleep" /\ Snapshot /\ Met # {} /\ GateOpenAtEvaluation) =>
          FanoutsIn(cycle) # {}

C8_Witness ==
    /\ pc = "for_alert"
    /\ cycle >= 2
    /\ prev_price # None
    /\ is_met(conditions[ci], prev_price.v)
    /\ \E i \in FanoutsIn(cycle - 1) : fanouts[i].condition = ci

(* C9: last_alert_time is written only after a fan-out in which some       *)
(* channel delivered.                                                      *)
C9_RecordOnlyAfterDelivery ==
    [][last_alert_time' # last_alert_time =>
          \E i \in DOMAIN attempted : Delivered(attempted[i].outcome)]_vars

(* C10 as stated: with cooldown_period < check_interval every cycle with a *)
(* snapshot and a met condition fans out; with cooldown_period >           *)
(* check_interval a cycle that starts less than cooldown_period after the  *)
(* last record does not fan out.                                           *)
C10_ShortCooldown ==
    (cooldown_period < check_interval /\ pc = "sleep" /\ Snapshot /\ Met # {})
        => FanoutsIn(cycle) # {}

C10_CooldownVersusInterval ==
    /\ C10_ShortCooldown
    /\ (/\ cooldown_period > check_interval
        /\ mark.last # None
        /\ mark.started < mark.last.v + cooldown_period)
          => FanoutsIn(cycle) = {}

(* C10 as amended: the second half holds of a cycle whose fetch returns    *)
(* less than cooldown_period after the last record.                        *)
C10_CooldownVersusPoll ==
    /\ C10_ShortCooldown
    /\ (/\ cooldown_period > check_interval
        /\ mark.last # None
        /\ mark.polled < mark.last.v + cooldown_period)
          => FanoutsIn(cycle) = {}

C10_Witness ==
    /\ cooldown_period > check_interval
    /\ pc = "sleep"
    /\ Snapshot
    /\ Met # {}
    /\ mark.last # None
    /\ mark.polled < mark.last.v + cooldown_period
    /\ FanoutsIn(cycle) = {}

(* C11: with any of the three credentials empty the constructor still      *)
(* completes, every email attempt ends at the credentials check (one       *)
(* error logged, no SMTP session, normal return), and the other channels   *)
(* of the fan-out are attempted.                                           *)
AnyCredentialEmpty ==
    \/ config.email.sender_email = ""
    \/ config.email.sender_password = ""
    \/ config.email.receiver_email = ""

C11_EmailNeedsCredentials ==
    /\ pc = "init" => ENABLED CryptoAlertBot_init
    /\ (pc # "init" /\ AnyCredentialEmpty) =>
          /\ \A i \in DOMAIN attempted :
                attempted[i].alert_type = "email"
                   => attempted[i].outcome = "no_credentials"
          /\ FanoutEnded => Len(attempted) = Len(alert_types)
          /\ pc = "raised" => attempted = <<>>

C11_Witness ==
    /\ pc = "record"
    /\ AnyCredentialEmpty
    /\ config.email.sender_email # ""
    /\ market_data.volume = None
    /\ attempted = <<[alert_type |-> "email", outcome |-> "no_credentials"],
                     [alert_type |-> "sound", outcome |-> "played"]>>

(* C12: for the fetched price p and every configured condition with        *)
(* target t, is_met is p >= t for "above" and p <= t for "below", so at    *)
(* p = t it is met in both directions; and the condition a fan-out is      *)
(* started for satisfies the comparison of its direction.                  *)
C12_IsMetComparison ==
    Snapshot =>
       LET p == market_data.price.v
       IN  /\ \A i \in DOMAIN conditions :
                LET c == conditions[i]
                IN  /\ c.condition_type = "above" =>
                          (is_met(c, p) <=> p >= c.target_price)
                    /\ c.condition_type = "below" =>
                          (is_met(c, p) <=> p <= c.target_price)
                    /\ p = c.target_price => is_met(c, p)
           /\ pc = "for_alert" =>
                \/ conditions[ci].condition_type = "above"
                      /\ p >= conditions[ci].target_price
                \/ conditions[ci].condition_type = "below"
                      /\ p <= conditions[ci].target_price

C12_Witness ==
    /\ pc = "for_alert"
    /\ ci = 2
    /\ conditions[1].condition_type # conditions[2].condition_type
    /\ market_data.price.v = conditions[1].target_price
    /\ market_data.price.v = conditions[2].target_price
    /\ Cardinality(FanoutsIn(cycle)) = 2

(* C13: the constructor, finding no configuration file, writes one with    *)
(* the documented schema, its three email fields empty when the            *)
(* environment seeds none, and keeps in memory what it wrote; finding a    *)
(* file, it loads it and leaves it as it is; nothing writes the file or    *)
(* the configuration afterwards.                                           *)
C13_Step ==
    /\ (pc = "init" /\ pc' # "init" /\ config_file = Missing) =>
          /\ config_file' # Missing
          /\ json_load(config_file') = config'
          /\ DOMAIN config' = {"email", "notification_preferences"}
          /\ DOMAIN config'.email =
                {"sender_email", "sender_password", "receiver_email"}
          /\ config'.notification_preferences =
                [price_history |-> TRUE, volume_alert |-> TRUE]
          /\ environ = NoEnviron =>
                \A k \in DOMAIN config'.email : config'.email[k] = ""
    /\ (pc = "init" /\ pc' # "init" /\ config_file # Missing) =>
          /\ config_file' = config_file
          /\ config' = json_load(config_file)
    /\ pc # "init" => config_file' = config_file /\ config' = config

C13_ConfigBootstrap == [][C13_Step]_vars

C13_Witness ==
    /\ pc = "while"
    /\ ~config_found
    /\ environ = NoEnviron
    /\ config = Config(Credentials("", "", ""))
    /\ config_file = json_dump(config)

(* C14: a step that changes running only clears it and changes nothing     *)
(* else of the bot or of the cycle in progress; a step of the loop never   *)
(* writes running; the loop stops only at its while test, with running     *)
(* cleared.  So a cycle interrupted by the signal runs to its end: when    *)
(* the signal came during a dispatch the cooldown record follows it, when  *)
(* it came at the fetch the fetch, the evaluation, the fan-out and the     *)
(* record of that cycle follow it.                                         *)
C14_Step ==
    /\ running' # running =>
          /\ running /\ ~running'
          /\ UNCHANGED <<settings, last_alert_time, pc, market_data, ci, ai,
                         now, cycle, last_fetch, fanouts, attempted>>
    /\ pc' # pc => running' = running
    /\ (pc' = "stopped" /\ pc # "stopped") => (pc = "while" /\ ~running)

C14_Completed ==
    /\ (shutdown_pc = "for_alert" /\ pc = "stopped") =>
          /\ last_alert_time # None
          /\ last_alert_time.v >= shutdown_time
    /\ (shutdown_pc = "fetch" /\ pc = "stopped") =>
          /\ fetches_after_stop = 1
          /\ mark.polled >= shutdown_time
          /\ (market_data # None /\ Met # {} /\ GateOpenAtEvaluation) =>
                /\ FanoutsIn(cycle) # {}
                /\ last_alert_time # None
                /\ last_alert_time.v >= shutdown_time

C14_CooperativeShutdown == [](C14_Completed) /\ [][C14_Step]_vars

C14_Witness ==
    /\ pc = "stopped"
    /\ shutdown_pc = "fetch"
    /\ fetches_after_stop = 1
    /\ \E i \in FanoutsIn(cycle) : fanouts[i].at > shutdown_time
    /\ last_alert_time # None
    /\ last_alert_time.v > fanouts[Len(fanouts)].at

(* C15: with a positive cooldown_period, the condition a fan-out is        *)
(* started for is the first condition of the configured list that the      *)
(* fetched price meets, and a cycle that finds the gate open and some      *)
(* condition met fans out for that condition alone.                        *)
C15_FirstMetCondition ==
    cooldown_period > 0 =>
       /\ pc \in {"for_alert", "record"} =>
             /\ ci \in Met
             /\ \A j \in Met : ci <= j
       /\ (pc = "sleep" /\ Snapshot /\ Met # {} /\ GateOpenAtEvaluation) =>
             \E i \in DOMAIN fanouts :
                /\ FanoutsIn(cycle) = {i}
                /\ \A j \in Met : fanouts[i].condition <= j

C15_Witness ==
    /\ cooldown_period > 0
    /\ pc = "sleep"
    /\ Snapshot
    /\ Cardinality(Met) = 2
    /\ \E i \in FanoutsIn(cycle) : fanouts[i].condition = 1
    /\ conditions[1] # conditions[2]

(* C16: the attempts of a fan-out are the entries of alert_types, each     *)
(* once and in list order; a fan-out that ended attempted every entry;     *)
(* and last_alert_time is written only when every entry was attempted.     *)
C16_State ==
    /\ Len(attempted) <= Len(alert_types)
    /\ \A i \in DOMAIN attempted : attempted[i].alert_type = alert_types[i]
    /\ FanoutEnded =>
          [i \in DOMAIN attempted |-> attempted[i].alert_type] = alert_types

C16_Step ==
    last_alert_time' # last_alert_time =>
       [i \in DOMAIN attempted |-> attempted[i].alert_type] = alert_types

C16_AllChannelsThenRecord == [](C16_State) /\ [][C16_Step]_vars

(* C17: any two fan-outs start at least cooldown_period apart; a fan-out   *)
(* starts no sooner than cooldown_period after the record before it; and   *)
(* a cycle that finds the gate closed starts none, whatever is met.        *)
C17_FanoutsSeparated ==
    /\ \A i, j \in DOMAIN fanouts :
          i < j => fanouts[j].at >= fanouts[i].at + cooldown_period
    /\ (pc = "for_alert" /\ last_alert_time # None) =>
          fanouts[Len(fanouts)].at >= last_alert_time.v + cooldown_period
    /\ (pc = "sleep" /\ Snapshot /\ ~GateOpenAtEvaluation) =>
          FanoutsIn(cycle) = {}

C17_Witness ==
    /\ cooldown_period > check_interval
    /\ cycle = 3
    /\ Len(fanouts) = 2
    /\ fanouts[1].cycle = 1
    /\ fanouts[2].cycle = 3
    /\ fanouts[2].at - fanouts[1].at >= cooldown_period

(* C18: wherever the signal arrives, at most one fetch is started after    *)
(* running was cleared, and from then on the loop either has reached       *)
(* "Monitoring stopped" or has a next statement to execute.                *)
C18_StopsAfterSignal ==
    /\ fetches_after_stop <= 1
    /\ ~running => (pc = "stopped" \/ ENABLED start_monitoring)

(* The first half of C18 alone.                                            *)
AtMostOneFetchAfterSignal == fetches_after_stop <= 1

(* C19: while no shutdown is signalled, a cycle whose fetch succeeded and  *)
(* whose price meets some condition fans out whenever it finds the gate    *)
(* open, and the loop goes on to its next statement, so that the next      *)
(* expiry of the cooldown is followed by a fan-out again; and a fan-out    *)
(* is only ever for a condition met by the price of its own cycle, never   *)
(* for one that was met while the gate was closed.                         *)
C19_LevelTriggered ==
    /\ (running /\ Snapshot /\ Met # {}) =>
          /\ ENABLED start_monitoring
          /\ (pc = "sleep" /\ GateOpenAtEvaluation) => FanoutsIn(cycle) # {}
    /\ AfterFetch =>
          \A i \in FanoutsIn(cycle) : Snapshot /\ fanouts[i].condition \in Met

====
